---- MODULE Spec2Model ----
(***************************************************************************)
(* UncookedSlice<T> (src/lib.rs): a Copy wrapper around a raw `*mut [T]`,  *)
(* i.e. an (address, length) pair, with unchecked indexing, raw access     *)
(* through Deref/DerefMut and a self-advancing Iterator implementation.    *)
(*                                                                         *)
(* Memory is one allocation `data` of DataLen elements at address          *)
(* DataBase, as in the tests (`let mut data = [..]; &raw mut data[..]`).   *)
(* Addresses are counted in element strides.  Views are built from        *)
(* sub-slices of `data`, so a view's region is always valid; an index can  *)
(* still leave the allocation, which is undefined behaviour: the access    *)
(* either traps, or reads an arbitrary value / writes past `data`.         *)
(***************************************************************************)
EXTENDS Integers, Sequences, FiniteSets, TLC

\* ---- bounds of the model ----
MaxLen == 2
MaxVal == 1
DataBase == 2

Lens == 0 .. MaxLen
Values == 0 .. MaxVal
\* the program's view variables, named as in the tests
ViewIds == {"uncooked", "uncooked2"}
Indices == 0 .. MaxLen

VARIABLES
    data,      \* the allocation's contents: data[k] is the element at DataBase + k - 1
    views,     \* the UncookedSlice values held by the program, by variable
    orig,      \* the raw slice each variable was last built from (`ptr` in the tests)
    taken,     \* how many items `next` has taken for each variable since then
               \* (the index `enumerate()` hands out in the tests)
    last,      \* the last operation, its arguments and what it returned
    trapped    \* an out-of-allocation access made the host abort the program

vars == <<data, views, orig, taken, last, trapped>>

\* ---- raw pointers and raw slices ----
DataLen == Len(data)
Alloc == DataBase .. (DataBase + DataLen - 1)

\* ptr::slice_from_raw_parts_mut: a fat pointer is the pair (address, length)
slice_from_raw_parts_mut(p, n) == [ptr |-> p, len |-> n]

\* <*mut [T]>::cast::<T>(): the thin pointer, the length is dropped
cast(s) == s.ptr

\* <*mut [T]>::len(): the length metadata
len(s) == s.len

\* <*mut T>::add(count), in element strides
add(p, count) == p + count

\* `&raw mut data[..]`
DataPtr == slice_from_raw_parts_mut(DataBase, DataLen)

\* the element stored at address a of the allocation
Load(a) == data[a - DataBase + 1]

\* the allocation after storing x at address a
Store(a, x) == [data EXCEPT ![a - DataBase + 1] = x]

\* ptr::add's contract: p and p + count lie in the allocation or one past its end
InBounds(p, count) == p >= DataBase /\ p + count <= DataBase + DataLen

\* ---- UncookedSlice ----
\* (variant: the view keeps the thin pointer and forgets the length)
new_thin(ptr) == [inner |-> slice_from_raw_parts_mut(cast(ptr), 0)]

new(ptr) == [inner |-> ptr]

inner(self) == self.inner

\* (variant: the index is counted from one)
index_skip(self, i) == add(cast(self.inner), i + 1)

\* (variant: indexing checks the index against the count and fails outside it)
index_checked(self, i) == IF i < len(self.inner) THEN add(cast(self.inner), i) ELSE 0 - 1

\* Index::index: the place `*self.inner.cast::<T>().add(index)`
index(self, i) == add(cast(self.inner), i)

\* (variant: the write goes to the element after the indexed one)
index_mut_skip(self, i) == add(cast(self.inner), i + 1)

\* IndexMut::index_mut: the place `*self.inner.cast::<T>().add(index)`
index_mut(self, i) == add(cast(self.inner), i)

deref(self) == self.inner

\* (variant: only the address is replaced, the old length stays)
deref_mut_ptr_only(self, raw) == [self EXCEPT !.inner.ptr = raw.ptr]

\* `*self.deref_mut() = raw`: the whole fat pointer is replaced
deref_mut(self, raw) == [self EXCEPT !.inner = raw]

\* (variant: only the addresses are compared, as ptr::addr_eq does)
eq_addr(a, b) == a.inner.ptr = b.inner.ptr

\* derive(PartialEq) on a struct of one `*mut [T]`: address and length are compared
eq(a, b) == a.inner.ptr = b.inner.ptr /\ a.inner.len = b.inner.len

\* (variant: the length is decremented but the pointer is not advanced)
next_inner_no_advance(self) == slice_from_raw_parts_mut(cast(self.inner), len(self.inner) - 1)

\* Iterator::next, count > 0: the view after the call
next_inner(self) ==
    LET old_len == len(self.inner)
        old_ptr == cast(self.inner)
        new_len == old_len - 1
        new_ptr == add(old_ptr, 1)
    IN  slice_from_raw_parts_mut(new_ptr, new_len)

\* (variant: the item is read through new_ptr)
next_item_addr_new(self) == add(cast(self.inner), 1)

\* Iterator::next, count > 0: the address `*old_ptr` reads
next_item_addr(self) == cast(self.inner)

\* (variant: no arm for a length of 0)
next_never_none(self) == FALSE

\* Iterator::next: `0 => return None`
next_is_none(self) == len(self.inner) = 0

\* ---- results ----
None == <<>>
Some(x) == <<x>>
NullRaw == slice_from_raw_parts_mut(0, 0)

Result(op, v, i, item, raw) == [op |-> op, v |-> v, i |-> i, item |-> item, raw |-> raw]

\* what a read of address a can produce: the element there; or, when the pointer
\* arithmetic left the allocation or a is outside it (UB), any value or a trap
ReadOutcomes(a, inbounds) ==
    IF inbounds /\ a \in Alloc
    THEN {[trap |-> FALSE, val |-> Load(a)]}
    ELSE {[trap |-> FALSE, val |-> x] : x \in Values} \cup {[trap |-> TRUE, val |-> 0]}

\* what a write of x to address a can produce: the element there replaced; or (UB)
\* a trap, or a write that lands in memory past the end of `data`
WriteOutcomes(a, inbounds, x) ==
    IF inbounds /\ a \in Alloc
    THEN {[trap |-> FALSE, data |-> Store(a, x)]}
    ELSE {[trap |-> FALSE, data |-> data], [trap |-> TRUE, data |-> data]}

\* the raw slices the program builds views from: `&raw mut data[o..]` for every o,
\* and `&raw mut data[..DataLen - 1]`
RawInputs ==
    {slice_from_raw_parts_mut(DataBase + o, DataLen - o) : o \in 0 .. DataLen}
    \cup {slice_from_raw_parts_mut(DataBase, n) : n \in {DataLen - 1} \cap Nat}

\* ---- the program ----
Init ==
    /\ data \in UNION {[1 .. n -> Values] : n \in Lens}
    /\ views = [v \in ViewIds |-> new(DataPtr)]
    /\ orig = [v \in ViewIds |-> DataPtr]
    /\ taken = [v \in ViewIds |-> 0]
    /\ last = Result("new", "uncooked", 0, None, NullRaw)
    /\ trapped = FALSE

\* `let v = unsafe { UncookedSlice::new(ptr) }` for an arbitrary raw slice
New(v, raw) ==
    /\ ~trapped
    /\ views' = [views EXCEPT ![v] = new(raw)]
    /\ orig' = [orig EXCEPT ![v] = raw]
    /\ taken' = [taken EXCEPT ![v] = 0]
    /\ last' = Result("new", v, 0, None, NullRaw)
    /\ UNCHANGED <<data, trapped>>

\* `let w = v` (Copy): e.g. the copy `uncooked.enumerate()` consumes
Copy(v, w) ==
    /\ ~trapped
    /\ v # w
    /\ views' = [views EXCEPT ![w] = views[v]]
    /\ orig' = [orig EXCEPT ![w] = orig[v]]
    /\ taken' = [taken EXCEPT ![w] = taken[v]]
    /\ last' = Result("copy", w, 0, None, NullRaw)
    /\ UNCHANGED <<data, trapped>>

\* `v.inner()`
Inner(v) ==
    /\ ~trapped
    /\ last' = Result("inner", v, 0, None, inner(views[v]))
    /\ UNCHANGED <<data, views, orig, taken, trapped>>

\* `*v` and `v.len()`, which auto-derefs to the raw slice's len
Deref(v) ==
    /\ ~trapped
    /\ last' = Result("deref", v, 0, None, deref(views[v]))
    /\ UNCHANGED <<data, views, orig, taken, trapped>>

\* `let old = *v; *v = raw` through Deref and DerefMut
DerefMut(v, raw) ==
    /\ ~trapped
    /\ views' = [views EXCEPT ![v] = deref_mut(views[v], raw)]
    /\ orig' = [orig EXCEPT ![v] = raw]
    /\ taken' = [taken EXCEPT ![v] = 0]
    /\ last' = Result("deref_mut", v, 0, None, deref(views[v]))
    /\ UNCHANGED <<data, trapped>>

\* `v[i]`
IndexRead(v, i) ==
    /\ ~trapped
    /\ \E out \in ReadOutcomes(index(views[v], i), InBounds(cast(views[v].inner), i)) :
          /\ trapped' = out.trap
          /\ last' = Result("index", v, i, IF out.trap THEN None ELSE Some(out.val), NullRaw)
    /\ UNCHANGED <<data, views, orig, taken>>

\* `v[i] = x`
IndexWrite(v, i, x) ==
    /\ ~trapped
    /\ \E out \in WriteOutcomes(index_mut(views[v], i), InBounds(cast(views[v].inner), i), x) :
          /\ trapped' = out.trap
          /\ data' = out.data
          /\ last' = Result("index_mut", v, i, IF out.trap THEN None ELSE Some(x), NullRaw)
    /\ UNCHANGED <<views, orig, taken>>

\* (variant: the views are handles on one shared cursor, so advancing one advances
\* every view that holds the same pair)
Next_shared(v) ==
    /\ ~trapped
    /\ ~next_is_none(views[v])
    /\ views' = [w \in ViewIds |->
                    IF views[w] = views[v]
                    THEN [views[w] EXCEPT !.inner = next_inner(views[v])]
                    ELSE views[w]]
    /\ taken' = [taken EXCEPT ![v] = @ + 1]
    /\ last' = Result("next", v, 0, Some(Load(next_item_addr(views[v]))), NullRaw)
    /\ UNCHANGED <<data, orig, trapped>>

\* `v.next()`
Next_(v) ==
    /\ ~trapped
    /\ IF next_is_none(views[v])
       THEN /\ last' = Result("next", v, 0, None, NullRaw)
            /\ UNCHANGED <<data, views, orig, taken, trapped>>
       ELSE \E out \in ReadOutcomes(next_item_addr(views[v]),
                                     InBounds(cast(views[v].inner), 1)) :
               /\ trapped' = out.trap
               /\ views' = [views EXCEPT ![v] = [@ EXCEPT !.inner = next_inner(views[v])]]
               /\ taken' = [taken EXCEPT ![v] = IF out.trap THEN @ ELSE @ + 1]
               /\ last' = Result("next", v, 0,
                                 IF out.trap THEN None ELSE Some(out.val), NullRaw)
               /\ UNCHANGED <<data, orig>>

Next ==
    \/ \E v \in ViewIds, raw \in RawInputs : New(v, raw)
    \/ \E v \in ViewIds, w \in ViewIds : Copy(v, w)
    \/ \E v \in ViewIds : Inner(v)
    \/ \E v \in ViewIds : Deref(v)
    \/ \E v \in ViewIds, raw \in RawInputs : DerefMut(v, raw)
    \/ \E v \in ViewIds, i \in Indices : IndexRead(v, i)
    \/ \E v \in ViewIds, i \in Indices, x \in Values : IndexWrite(v, i, x)
    \/ \E v \in ViewIds : Next_(v)

Spec == Init /\ [][Next]_vars

\* ---- properties ----
\* the variable the last operation acted on, and its current raw slice
LastView == views[last.v]
LastRaw == views[last.v].inner

\* the addresses a view yields when it is iterated to exhaustion, in order
RECURSIVE IterAddrs(_)
IterAddrs(self) ==
    IF next_is_none(self) \/ len(self.inner) < 0
    THEN <<>>
    ELSE <<next_item_addr(self)>> \o IterAddrs([self EXCEPT !.inner = next_inner(self)])

\* C1: a view built over the whole buffer of length L yields, on its k-th call of
\* next (k = 1..L), the buffer's k-th element, and on call L + 1 it yields nothing:
\* after a next, a yielded item is the taken-th element of data with taken <= L, and
\* no item is yielded exactly when L items have been taken.
C1_IterationCompleteAndOrdered ==
    /\ \A v \in ViewIds : orig[v] = DataPtr => taken[v] <= DataLen
    /\ (last.op = "next" /\ orig[last.v] = DataPtr) =>
          /\ ~trapped
          /\ last.item = None => taken[last.v] = DataLen
          /\ last.item # None =>
                /\ taken[last.v] \in 1 .. DataLen
                /\ last.item = Some(data[taken[last.v]])

C1_Witness ==
    /\ last.op = "next" /\ orig[last.v] = DataPtr
    /\ last.item = None
    /\ DataLen = MaxLen /\ taken[last.v] = MaxLen
    /\ \E k \in 1 .. (DataLen - 1) : data[k] # data[k + 1]

\* C2: iterating a copy of A leaves A alone: while A itself has not been iterated, it
\* still holds the pair it was built from, however far another variable built from
\* the same pair has been iterated; a view built afresh from that pair is equal to
\* A and reports the pair's length.
C2_CopiesAreIsolated ==
    \A a \in ViewIds, c \in ViewIds :
        (a # c /\ orig[c] = orig[a] /\ taken[a] = 0) =>
            /\ inner(views[a]) = orig[a]
            /\ eq(new(orig[a]), views[a])
            /\ len(deref(new(orig[a]))) = len(orig[a])
            /\ len(deref(views[a])) = len(orig[a])

C2_Witness ==
    \E a \in ViewIds, c \in ViewIds :
        /\ a # c /\ orig[c] = orig[a] /\ orig[a] = DataPtr /\ DataLen = MaxLen
        /\ taken[a] = 0 /\ taken[c] = MaxLen
        /\ last.op = "next" /\ last.v = c /\ last.item = None
        /\ ~eq(views[a], views[c])

\* C3: after `view[i] = x` with i < count, the element at address base + i is x for
\* every reader: reading view[i], or reading any other view at an index that maps to
\* the same address, yields x.
C3_WriteThrough ==
    (last.op = "index_mut" /\ last.i < len(LastRaw)) =>
        /\ ~trapped
        /\ \A w \in ViewIds, j \in Indices :
              (cast(views[w].inner) + j = cast(LastRaw) + last.i) =>
                  ReadOutcomes(index(views[w], j), InBounds(cast(views[w].inner), j))
                      = {[trap |-> FALSE, val |-> last.item[1]]}

C3_Witness ==
    /\ last.op = "index_mut" /\ last.i < len(LastRaw) /\ ~trapped
    /\ \E w \in ViewIds, j \in Indices :
          /\ w # last.v
          /\ cast(views[w].inner) # cast(LastRaw)
          /\ cast(views[w].inner) + j = cast(LastRaw) + last.i
          /\ Load(index(views[w], j)) = last.item[1]

\* C4: reading view[i], for a view that holds the whole buffer and i < L, returns
\* the buffer's i-th element and changes neither a view nor the memory.
C4_IndexRoundTrip ==
    [][(last'.op = "index" /\ views[last'.v].inner = DataPtr /\ last'.i < DataLen) =>
          /\ ~trapped'
          /\ last'.item = Some(data[last'.i + 1])
          /\ views' = views
          /\ data' = data]_vars

C4_Witness ==
    /\ last.op = "index" /\ LastRaw = DataPtr
    /\ DataLen = MaxLen /\ last.i = MaxLen - 1
    /\ last.item = Some(data[MaxLen])
    /\ data[1] # data[MaxLen]

\* C5: two views are equal exactly when they hold the same address and the same
\* count, whatever the memory holds, and a write to memory changes no comparison.
C5_EqualityIsIdentity ==
    /\ [](\A v \in ViewIds, w \in ViewIds :
            eq(views[v], views[w]) <=>
                (views[v].inner.ptr = views[w].inner.ptr
                    /\ views[v].inner.len = views[w].inner.len))
    /\ [][last'.op = "index_mut" =>
            \A v \in ViewIds, w \in ViewIds :
                (eq(views[v], views[w]))' = eq(views[v], views[w])]_vars

\* two non-empty views at the same address with different counts, after a write
C5_Witness ==
    \E v \in ViewIds, w \in ViewIds :
        /\ views[v].inner.ptr = views[w].inner.ptr
        /\ views[v].inner.len # views[w].inner.len
        /\ views[v].inner.len > 0 /\ views[w].inner.len > 0
        /\ ~eq(views[v], views[w])
        /\ last.op = "index_mut" /\ ~trapped

\* C6: the pair read back from a freshly built view, by inner() or by dereference,
\* is the pair given to new, and the length seen through the dereference is the
\* count given.
C6_RepresentationRoundTrip ==
    (last.op \in {"inner", "deref"} /\ taken[last.v] = 0) =>
        /\ last.raw = orig[last.v]
        /\ cast(last.raw) = orig[last.v].ptr
        /\ len(last.raw) = orig[last.v].len

C6_Witness ==
    /\ last.op = "deref" /\ taken[last.v] = 0
    /\ orig[last.v] = DataPtr /\ DataLen = MaxLen
    /\ len(last.raw) = MaxLen /\ cast(last.raw) = DataBase

\* C7: a call of next on a view whose count is 0 yields nothing and changes neither
\* the view (so its count is 0 for the next call too), nor another view, nor memory.
C7_ExhaustionIsTerminal ==
    [][(last'.op = "next" /\ len(views[last'.v].inner) = 0) =>
          /\ last'.item = None
          /\ ~trapped'
          /\ views' = views
          /\ data' = data]_vars

\* a call of next on an exhausted view, after it has yielded MaxLen items
C7_Witness ==
    /\ last.op = "next" /\ last.item = None
    /\ len(LastRaw) = 0
    /\ taken[last.v] = MaxLen

\* C8: after the raw pair of a view is replaced through DerefMut, the view holds
\* exactly the new pair (read back by inner() and by dereference), indexing addresses
\* base' + i, and iterating it visits the count' addresses from base' on.
C8_Retargeting ==
    (last.op = "deref_mut") =>
        /\ LastView = new(orig[last.v])
        /\ inner(LastView) = orig[last.v]
        /\ deref(LastView) = orig[last.v]
        /\ \A i \in Indices : index(LastView, i) = orig[last.v].ptr + i
        /\ \A i \in Indices : index_mut(LastView, i) = orig[last.v].ptr + i
        /\ IterAddrs(LastView) =
              [k \in 1 .. orig[last.v].len |-> orig[last.v].ptr + k - 1]

\* the replaced pair differs from the new one in address and in count
C8_Witness ==
    /\ last.op = "deref_mut"
    /\ last.raw.ptr # orig[last.v].ptr
    /\ last.raw.len # orig[last.v].len
    /\ last.raw.len > 0
    /\ orig[last.v].len > 0

\* C9: after k calls of next on a view built from (b, L), k <= L, the view holds
\* (b + k, L - k): base + count stays b + L and count is never negative; a call with
\* count > 0 returns the element at the current base, advances base by one and
\* decrements count by one; no call writes to memory.
C9_Inv ==
    \A v \in ViewIds :
        /\ taken[v] \in 0 .. orig[v].len
        /\ views[v].inner = slice_from_raw_parts_mut(orig[v].ptr + taken[v], orig[v].len - taken[v])
        /\ views[v].inner.ptr + views[v].inner.len = orig[v].ptr + orig[v].len
        /\ views[v].inner.len >= 0

C9_Step ==
    last'.op = "next" =>
        /\ data' = data
        /\ len(views[last'.v].inner) > 0 =>
              /\ last'.item = Some(Load(cast(views[last'.v].inner)))
              /\ cast(views'[last'.v].inner) = cast(views[last'.v].inner) + 1
              /\ len(views'[last'.v].inner) = len(views[last'.v].inner) - 1
              /\ taken'[last'.v] = taken[last'.v] + 1

C9_IterationBookkeeping == []C9_Inv /\ [][C9_Step]_vars

C9_Witness ==
    /\ last.op = "next" /\ last.item # None
    /\ orig[last.v].len = MaxLen
    /\ taken[last.v] = MaxLen - 1
    /\ LastRaw = slice_from_raw_parts_mut(DataBase + MaxLen - 1, 1)

\* C10: view[i], read or written, addresses base + i whatever the count is: whenever
\* that address lies inside the buffer the access succeeds, at indices at or beyond
\* the remaining count too; a read returns the element there and a write stores
\* there; for a view built over the whole buffer and advanced by k calls of next,
\* that element is the buffer's element k + i.
C10_IndexIgnoresCount ==
    (last.op \in {"index", "index_mut"} /\ (cast(LastRaw) + last.i) \in Alloc) =>
        /\ ~trapped
        /\ last.item = Some(Load(cast(LastRaw) + last.i))
        /\ orig[last.v] = DataPtr => last.item = Some(data[taken[last.v] + last.i + 1])

\* an index at or beyond the remaining count of an advanced view, inside the buffer
C10_Witness ==
    /\ last.op = "index" /\ ~trapped
    /\ taken[last.v] >= 1
    /\ last.i >= len(LastRaw)
    /\ (cast(LastRaw) + last.i) \in Alloc
    /\ last.item = Some(Load(cast(LastRaw) + last.i))

====
